---- MODULE Spec2Model ----
(***************************************************************************)
(* Model of src/meta_price_tracker.py: the poll / evaluate / cooldown /    *)
(* notify loop of run(), with its collaborators get_price, get_news,       *)
(* analyze_with_claude, send_smart_email, log_price and format_change.     *)
(*                                                                         *)
(* Prices are integers in cents (get_price rounds to 2 decimals), times    *)
(* are integers in seconds.  Python's None is the empty tuple and a value  *)
(* v of an Optional is the 1-tuple <<v>>.                                  *)
(***************************************************************************)
EXTENDS Integers, Sequences, FiniteSets, TLC

\* ------------------------------------------------------------------ config
TICKER == "META"
ALERT_BELOW == 80000
CHECK_INTERVAL_SECONDS == 60
ALERT_COOLDOWN_SECONDS == 3600
FALLBACK_ANALYSIS == "AI analysis unavailable at this time."

\* ------------------------------------------------------------------ bounds
\* number of iterations of the while-loop of run() that are explored
MaxTicks == 3

\* prices the price source can deliver, in cents: 0.00, 695.00 (below the
\* threshold) and 800.00 (exactly the threshold, the least price not below it)
Prices == {0, 69500, 80000}
\* by how much the wall clock differs after time.sleep(CHECK_INTERVAL_SECONDS):
\* never less than the interval, possibly more (the process is suspended, the
\* host is busy), unless the wall clock is set back meanwhile (time.time() is
\* not monotonic), which the negative value stands for
SleepDurations == {CHECK_INTERVAL_SECONDS, 600, 3100, 0 - 600}
\* how long the blocking calls get_news and send_smart_email can take (neither
\* bounds its total time); the time of analyze_with_claude, which runs
\* between the two, is counted with that of get_news
CallDurations == {0, 500}

None == <<>>
Some(v) == <<v>>
Val(o) == o[1]

VARIABLES
    pc,               \* position of run(): the statement it is executing or about to execute
    exit,             \* how run() was left: "none" while it runs, "break" (line 283),
                      \* or the exception that propagated out of it
    clock,            \* the wall clock read by time.time() / datetime.now()
    price,            \* local `price` of run()
    prev_price,       \* local `prev_price` of run()
    last_alert_time,  \* local `last_alert_time` of run()
    now,              \* local `now` of run() (unbound until line 247 first runs)
    articles,         \* local `articles` of run()
    analysis,         \* local `analysis` of run()
    success,          \* local `success` of run()
    log_exists,       \* os.path.isfile(LOG_FILE); run() starts on no log file
    log_lines,        \* the lines of LOG_FILE
    goodbye,          \* the final status message of line 280 was printed
    ticks,            \* iterations of the while-loop started so far
    calls,            \* history: collaborator calls made by the current tick, in order
    tick_lat,         \* history: last_alert_time when the current tick started
    evals,            \* history: one record per below-threshold evaluation (line 246 true):
                      \* its `now`, last_alert_time before it, whether send_smart_email
                      \* was called and returned True, and the time at which it was
                      \* called (the time the mail carries, line 143)
    observed          \* history: the prices get_price returned so far, in tick order

vars == <<pc, exit, clock, price, prev_price, last_alert_time, now, articles,
          analysis, success, log_exists, log_lines, goodbye, ticks, calls,
          tick_lat, evals, observed>>

locals == <<price, prev_price, last_alert_time, now, articles, analysis, success>>
logfile == <<log_exists, log_lines>>
history == <<calls, tick_lat, evals, observed>>

\* ------------------------------------------------------------- log_price
HEADER == <<"timestamp", "ticker", "price", "below_target">>

\* the flag column of a data row (line 205)
below_flag(p) == IF p < ALERT_BELOW THEN "YES" ELSE ""

\* the data row of line 206
log_row(ts, p) == <<ts, TICKER, p, below_flag(p)>>

\* log_price writing the header on every call
log_price_always_header(exists, lines, ts, p) ==
    Append(Append(lines, HEADER), log_row(ts, p))

\* the lines of the file after log_price(p) at time ts (lines 201-206)
log_price(exists, lines, ts, p) ==
    IF exists THEN Append(lines, log_row(ts, p))
    ELSE Append(Append(lines, HEADER), log_row(ts, p))

\* --------------------------------------------------------- format_change
Abs(x) == IF x < 0 THEN -x ELSE x

\* line 213 divides by prev_price: ZeroDivisionError when it is 0
format_change_raises(p, prev) == prev # None /\ Val(prev) = 0

\* the arrow and the two magnitudes of line 215 (percent in hundredths,
\* truncated); defined when line 213 does not raise
format_change(p, prev) ==
    IF prev = None THEN <<>>
    ELSE LET change == p - Val(prev)
             pct == (change * 10000) \div Val(prev)
         IN  <<IF change >= 0 THEN "up" ELSE "down", Abs(change), Abs(pct)>>

\* ------------------------------------------------------------------ run()
\* the threshold test with <= for <
below_threshold_le(p) == p <= ALERT_BELOW

\* the threshold test with the comparison reversed
below_threshold_gt(p) == p > ALERT_BELOW

\* the threshold test dropped
below_threshold_always(p) == p = p

\* line 246
below_threshold(p) == p < ALERT_BELOW

\* the cooldown test without the elapsed-time comparison
cooldown_over_always(t, lat) == lat = None \/ TRUE

\* the cooldown never ends once an alert was sent
cooldown_over_once(t, lat) == lat = None

\* the cooldown test with >= for >
cooldown_over_ge(t, lat) ==
    lat = None \/ (t - Val(lat)) >= ALERT_COOLDOWN_SECONDS

\* lines 248-251
cooldown_over(t, lat) ==
    lat = None \/ (t - Val(lat)) > ALERT_COOLDOWN_SECONDS

\* the remaining cooldown with the subtraction of line 269 turned round
remaining_swapped(t, lat) == ALERT_COOLDOWN_SECONDS - (Val(lat) - t)

\* line 269
remaining(t, lat) == ALERT_COOLDOWN_SECONDS - (t - Val(lat))

\* last_alert_time never recorded
after_send_forgets(ok, t, lat) == lat

\* last_alert_time recorded whether or not the send succeeded
after_send_always(ok, t, lat) == Some(t)

\* a failed send clears last_alert_time
after_send_resets(ok, t, lat) == IF ok THEN Some(t) ELSE None

\* lines 266-267: last_alert_time after send_smart_email returned ok
after_send(ok, t, lat) == IF ok THEN Some(t) ELSE lat

Init ==
    /\ pc = "get_price"
    /\ exit = "none"
    /\ clock = 0
    /\ price = None
    /\ prev_price = None
    /\ last_alert_time = None
    /\ now = None
    /\ articles = <<>>
    /\ analysis = ""
    /\ success = FALSE
    /\ log_exists = FALSE /\ log_lines = <<>>
    /\ goodbye = FALSE
    /\ ticks = 1
    /\ calls = <<>>
    /\ tick_lat = None
    /\ evals = <<>>
    /\ observed = <<>>

\* get_price retried within the tick when it returned None
GetPrice_retries ==
    /\ exit = "none"
    /\ pc = "get_price"
    /\ \E p \in {Some(v) : v \in Prices} \cup {None} :
          /\ price' = p
          /\ pc' = IF p # None THEN "format_change" ELSE "get_price"
          /\ observed' = IF p # None THEN Append(observed, Val(p)) ELSE observed
    /\ calls' = Append(calls, "get_price")
    /\ UNCHANGED <<exit, clock, prev_price, last_alert_time, now, articles,
                   analysis, success, logfile, goodbye, ticks, tick_lat, evals>>

\* lines 236-239 and 274-275: get_price(TICKER) returns a price or None
GetPrice ==
    /\ exit = "none"
    /\ pc = "get_price"
    /\ \E p \in {Some(v) : v \in Prices} \cup {None} :
          /\ price' = p
          /\ pc' = IF p # None THEN "format_change" ELSE "sleep"
          /\ observed' = IF p # None THEN Append(observed, Val(p)) ELSE observed
    /\ calls' = Append(calls, "get_price")
    /\ UNCHANGED <<exit, clock, prev_price, last_alert_time, now, articles,
                   analysis, success, logfile, goodbye, ticks, tick_lat, evals>>

\* lines 240-242: format_change(price, prev_price); its ZeroDivisionError is
\* caught nowhere and propagates out of run()
FormatChange ==
    /\ exit = "none"
    /\ pc = "format_change"
    /\ IF format_change_raises(Val(price), prev_price)
       THEN exit' = "ZeroDivisionError" /\ UNCHANGED pc
       ELSE /\ Len(format_change(Val(price), prev_price)) \in {0, 3}
            /\ pc' = "log_price"
            /\ UNCHANGED exit
    /\ UNCHANGED <<clock, locals, logfile, goodbye, ticks, history>>

\* line 244
LogPrice ==
    /\ exit = "none"
    /\ pc = "log_price"
    /\ log_lines' = log_price(log_exists, log_lines, clock, Val(price))
    /\ log_exists' = TRUE
    /\ calls' = Append(calls, "log_price")
    /\ pc' = "evaluate"
    /\ UNCHANGED <<exit, clock, locals, goodbye, ticks, tick_lat, evals, observed>>

\* a price that is not below the threshold clears last_alert_time
Evaluate_recovery_resets ==
    /\ exit = "none"
    /\ pc = "evaluate"
    /\ IF below_threshold(Val(price))
       THEN /\ now' = Some(clock)
            /\ evals' = Append(evals, [now |-> clock, lat |-> last_alert_time,
                                       called |-> FALSE, ok |-> FALSE,
                                       sent |-> None])
            /\ IF cooldown_over(clock, last_alert_time)
               THEN /\ pc' = "get_news"
                    /\ UNCHANGED prev_price
               ELSE /\ remaining(clock, last_alert_time) \in Int
                    /\ prev_price' = price
                    /\ pc' = "sleep"
            /\ UNCHANGED last_alert_time
       ELSE /\ prev_price' = price
            /\ pc' = "sleep"
            /\ last_alert_time' = None
            /\ UNCHANGED <<now, evals>>
    /\ UNCHANGED <<exit, clock, price, articles, analysis,
                   success, logfile, goodbye, ticks, calls, tick_lat, observed>>

\* lines 246-252 and 268-272: the threshold test and the cooldown test
Evaluate ==
    /\ exit = "none"
    /\ pc = "evaluate"
    /\ IF below_threshold(Val(price))
       THEN /\ now' = Some(clock)
            /\ evals' = Append(evals, [now |-> clock, lat |-> last_alert_time,
                                       called |-> FALSE, ok |-> FALSE,
                                       sent |-> None])
            /\ IF cooldown_over(clock, last_alert_time)
               THEN /\ pc' = "get_news"
                    /\ UNCHANGED prev_price
               ELSE /\ remaining(clock, last_alert_time) \in Int
                    /\ prev_price' = price
                    /\ pc' = "sleep"
       ELSE /\ prev_price' = price
            /\ pc' = "sleep"
            /\ UNCHANGED <<now, evals>>
    /\ UNCHANGED <<exit, clock, price, last_alert_time, articles, analysis,
                   success, logfile, goodbye, ticks, calls, tick_lat, observed>>

\* the mail sent right after the news, before the analysis
GetNews_then_send ==
    /\ exit = "none"
    /\ pc = "get_news"
    /\ \E a \in {<<>>, <<"article">>} : articles' = a
    /\ \E d \in CallDurations : clock' = clock + d
    /\ calls' = Append(calls, "get_news")
    /\ pc' = "send_smart_email"
    /\ UNCHANGED <<exit, price, prev_price, last_alert_time, now, analysis,
                   success, logfile, goodbye, ticks, tick_lat, evals, observed>>

\* line 256: get_news returns the articles, or [] on any failure
GetNews ==
    /\ exit = "none"
    /\ pc = "get_news"
    /\ \E a \in {<<>>, <<"article">>} : articles' = a
    /\ \E d \in CallDurations : clock' = clock + d
    /\ calls' = Append(calls, "get_news")
    /\ pc' = "analyze_with_claude"
    /\ UNCHANGED <<exit, price, prev_price, last_alert_time, now, analysis,
                   success, logfile, goodbye, ticks, tick_lat, evals, observed>>

\* no mail when the analysis is unavailable
Analyze_fallback_skips ==
    /\ exit = "none"
    /\ pc = "analyze_with_claude"
    /\ \E a \in {"analysis", FALLBACK_ANALYSIS} :
          /\ analysis' = a
          /\ pc' = IF a = FALLBACK_ANALYSIS THEN "sleep" ELSE "send_smart_email"
    /\ calls' = Append(calls, "analyze_with_claude")
    /\ UNCHANGED <<exit, clock, price, prev_price, last_alert_time, now, articles,
                   success, logfile, goodbye, ticks, tick_lat, evals, observed>>

\* line 261: analyze_with_claude returns the text, or the fallback on failure
Analyze ==
    /\ exit = "none"
    /\ pc = "analyze_with_claude"
    /\ \E a \in {"analysis", FALLBACK_ANALYSIS} : analysis' = a
    /\ calls' = Append(calls, "analyze_with_claude")
    /\ pc' = "send_smart_email"
    /\ UNCHANGED <<exit, clock, price, prev_price, last_alert_time, now, articles,
                   success, logfile, goodbye, ticks, tick_lat, evals, observed>>

\* lines 265-267 and 272: send_smart_email returns True or False
SendSmartEmail ==
    /\ exit = "none"
    /\ pc = "send_smart_email"
    /\ \E ok \in BOOLEAN :
          /\ success' = ok
          /\ last_alert_time' = after_send(ok, Val(now), last_alert_time)
          /\ evals' = [evals EXCEPT ![Len(evals)].called = TRUE,
                                    ![Len(evals)].ok = ok,
                                    ![Len(evals)].sent = Some(clock)]
    /\ \E d \in CallDurations : clock' = clock + d
    /\ calls' = Append(calls, "send_smart_email")
    /\ prev_price' = price
    /\ pc' = "sleep"
    /\ UNCHANGED <<exit, price, now, articles, analysis, logfile, goodbye,
                   ticks, tick_lat, observed>>

\* line 278 returning normally, then line 235: the next iteration starts
Sleep ==
    /\ exit = "none"
    /\ pc = "sleep"
    /\ ticks < MaxTicks
    /\ \E d \in SleepDurations : clock' = clock + d
    /\ ticks' = ticks + 1
    /\ calls' = <<>>
    /\ tick_lat' = last_alert_time
    /\ pc' = "get_price"
    \* articles, analysis and success are rebound (lines 256, 261, 265) before
    \* they are read again: their stale values are dropped here
    /\ articles' = <<>> /\ analysis' = "" /\ success' = FALSE
    /\ UNCHANGED <<exit, price, prev_price, last_alert_time, now, logfile,
                   goodbye, evals, observed>>

\* KeyboardInterrupt: caught at lines 279-283 only while run() is inside
\* time.sleep; anywhere else it is caught nowhere (the collaborators catch
\* Exception, which KeyboardInterrupt is not) and propagates out of run()
Interrupt ==
    /\ exit = "none"
    /\ IF pc = "sleep"
       THEN exit' = "break" /\ goodbye' = TRUE
       ELSE exit' = "KeyboardInterrupt" /\ UNCHANGED goodbye
    /\ UNCHANGED <<pc, clock, locals, logfile, ticks, history>>

Next ==
    \/ GetPrice
    \/ FormatChange
    \/ LogPrice
    \/ Evaluate
    \/ GetNews
    \/ Analyze
    \/ SendSmartEmail
    \/ Sleep
    \/ Interrupt

Spec == Init /\ [][Next]_vars

\* ---------------------------------------------------------------- helpers
\* the current tick has made the collaborator call c
Called(c) == \E i \in 1..Len(calls) : calls[i] = c

\* run() is inside the notifying branch (lines 253-265)
Notifying == pc \in {"get_news", "analyze_with_claude", "send_smart_email"}

\* the current tick has executed the tests of lines 246-252
Evaluated == Called("log_price") /\ pc # "evaluate"

\* the tick of the k-th below-threshold evaluation has run to its end or was
\* cut by an interrupt after its send returned
Settled(k) == k < Len(evals) \/ ~Notifying

\* the line l of the log is the header line of line 204
IsHeader(l) == l[2] = HEADER[2] /\ l = HEADER

\* ------------------------------------------------------------------ claims

\* C1: in a tick whose fetched price is not below ALERT_BELOW, run() never
\* enters the notifying branch and send_smart_email is not called, whatever
\* last_alert_time is and whatever earlier ticks did.
C1_NoSendAtOrAboveThreshold ==
    (price # None /\ Val(price) >= ALERT_BELOW)
        => (~Notifying /\ ~Called("send_smart_email") /\ ~Called("get_news"))

\* a finished tick at exactly the threshold, with an alert long past its
\* cooldown: nothing was sent
C1_Witness ==
    /\ pc = "sleep" /\ exit = "none"
    /\ price = Some(ALERT_BELOW)
    /\ calls = <<"get_price", "log_price">>
    /\ last_alert_time # None
    /\ clock - Val(last_alert_time) > ALERT_COOLDOWN_SECONDS

\* C2: any two ticks whose send_smart_email returned success captured `now`
\* values more than ALERT_COOLDOWN_SECONDS apart, the later tick's being
\* the larger.
C2_SuccessfulSendsApart ==
    \A i, j \in 1..Len(evals) :
        (i < j /\ evals[i].ok /\ evals[j].ok)
            => evals[j].now - evals[i].now > ALERT_COOLDOWN_SECONDS

\* three successful sends
C2_Witness ==
    /\ Len(evals) = 3
    /\ \A i \in 1..3 : evals[i].ok

\* C3: a tick that evaluates a price below ALERT_BELOW while last_alert_time
\* is still unset enters the notifying branch and, unless the process is
\* interrupted first, calls send_smart_email before the tick ends.
C3_FirstOccurrenceSends ==
    (exit = "none" /\ Evaluated /\ price # None /\ Val(price) < ALERT_BELOW
        /\ tick_lat = None)
        => (Notifying \/ (pc = "sleep" /\ Called("send_smart_email")))

\* the second tick sends with last_alert_time still unset (the first tick's
\* send failed or its price was not below the threshold)
C3_Witness ==
    /\ pc = "sleep" /\ exit = "none" /\ ticks = 2
    /\ price = Some(69500)
    /\ tick_lat = None
    /\ Called("send_smart_email")

\* C4: of two consecutive below-threshold observations evaluated less than
\* ALERT_COOLDOWN_SECONDS apart, at most one has its notification sent
\* (send_smart_email returning success).
C4_AtMostOneWithinCooldown ==
    \A i \in 1..(Len(evals) - 1) :
        Abs(evals[i + 1].now - evals[i].now) < ALERT_COOLDOWN_SECONDS
            => ~(evals[i].ok /\ evals[i + 1].ok)

\* two below-threshold observations 60 s apart: the first sent, the second
\* found the cooldown active
C4_Witness ==
    /\ Len(evals) = 2 /\ pc = "sleep"
    /\ evals[2].now - evals[1].now = CHECK_INTERVAL_SECONDS
    /\ evals[1].ok
    /\ ~evals[2].called

\* C5 as stated: of any two below-threshold observations evaluated more than
\* ALERT_COOLDOWN_SECONDS apart both have their notification sent, and
\* observations at t0, t0+600 s and t0+3700 s produce a send at t0, none at
\* t0+600 s and a second one at t0+3700 s.
C5_AsStated ==
    /\ \A i, j \in 1..Len(evals) :
          (i < j /\ Settled(j)
              /\ evals[j].now - evals[i].now > ALERT_COOLDOWN_SECONDS)
              => (evals[i].called /\ evals[j].called)
    /\ \A a \in 1..(Len(evals) - 2) :
          (Settled(a + 2) /\ evals[a].lat = None
              /\ evals[a + 1].now = evals[a].now + 600
              /\ evals[a + 2].now = evals[a].now + 3700)
              => (evals[a].called /\ ~evals[a + 1].called /\ evals[a + 2].called)

\* C5, amended: when a below-threshold observation had its notification sent
\* successfully and no notification was sent successfully since, a
\* below-threshold observation evaluated more than ALERT_COOLDOWN_SECONDS
\* after it sends a notification too (send_smart_email is called); and
\* observations at t0 (cooldown unset), t0+600 s and t0+3700 s produce a
\* send at t0 and, when that send succeeds, none at t0+600 s and a second
\* one at t0+3700 s.
C5_SecondSendAfterCooldown ==
    /\ \A i, j \in 1..Len(evals) :
          (i < j /\ Settled(j) /\ evals[i].ok
              /\ (\A k \in (i + 1)..(j - 1) : ~evals[k].ok)
              /\ evals[j].now - evals[i].now > ALERT_COOLDOWN_SECONDS)
              => evals[j].called
    /\ \A a \in 1..(Len(evals) - 2) :
          (Settled(a + 2) /\ evals[a].lat = None
              /\ evals[a + 1].now = evals[a].now + 600
              /\ evals[a + 2].now = evals[a].now + 3700)
              => /\ evals[a].called
                 /\ evals[a].ok => (~evals[a + 1].called /\ evals[a + 2].called)

\* the example: below-threshold observations at 0, 600 and 3700 s, sent at
\* 0, held back at 600 and sent again at 3700
C5_Witness ==
    /\ Len(evals) = 3 /\ pc = "sleep"
    /\ observed = <<69500, 69500, 69500>>
    /\ evals[1].now = 0 /\ evals[2].now = 600 /\ evals[3].now = 3700
    /\ evals[1].ok /\ ~evals[2].called /\ evals[3].ok

\* C6: a failed send leaves last_alert_time as it was before the tick, and the
\* next below-threshold tick whose cooldown test holds for that earlier value
\* finds last_alert_time still at that value and calls send_smart_email again.
C6_FailedSendKeepsCooldown ==
    /\ (pc = "sleep" /\ Called("send_smart_email") /\ ~success)
          => last_alert_time = tick_lat
    /\ \A i \in 1..(Len(evals) - 1) :
          (evals[i].called /\ ~evals[i].ok /\ Settled(i + 1)
              /\ (evals[i].lat = None
                  \/ evals[i + 1].now - Val(evals[i].lat) > ALERT_COOLDOWN_SECONDS))
              => (evals[i + 1].lat = evals[i].lat /\ evals[i + 1].called)

\* a send that failed after an earlier alert's cooldown had elapsed is
\* retried in the next tick, against the earlier alert's time
C6_Witness ==
    /\ Len(evals) = 3 /\ pc = "sleep"
    /\ evals[1].ok
    /\ evals[2].called /\ ~evals[2].ok
    /\ evals[3].called /\ evals[3].lat = Some(evals[1].now)

\* C7: between ticks, after N ticks whose price fetch succeeded, the log holds
\* the header line followed by N data rows, one per tick in tick order, each
\* with the tick's price and with the below-target flag set exactly when that
\* price < ALERT_BELOW; the header is written by the first log_price call,
\* which finds no file, and by no later one.
C7_LogMatchesObservations ==
    (pc \in {"sleep", "get_price"}) =>
        LET n == Len(observed)
        IN  /\ n = 0 => (log_lines = <<>> /\ ~log_exists)
            /\ n > 0 =>
                /\ log_exists
                /\ Len(log_lines) = 1 + n
                /\ IsHeader(log_lines[1])
                /\ \A k \in 1..n :
                      /\ ~IsHeader(log_lines[1 + k])
                      /\ log_lines[1 + k][2] = TICKER
                      /\ log_lines[1 + k][3] = observed[k]
                      /\ (log_lines[1 + k][4] = "YES") <=> (observed[k] < ALERT_BELOW)
                      /\ log_lines[1 + k][4] \in {"YES", ""}

\* three valid ticks on a fresh file: header and three rows, flagged and not
C7_Witness ==
    /\ pc = "sleep"
    /\ observed = <<80000, 69500, 80000>>
    /\ Len(log_lines) = 4
    /\ log_lines[3][4] = "YES" /\ log_lines[4][4] = ""

\* C8: last_alert_time differs from its value at the start of the tick exactly
\* when the tick's send_smart_email has returned success, and is then the
\* tick's `now`; at every moment it is the `now` of the latest evaluation whose
\* send succeeded, and unset when there is none.
C8_CooldownStateFrame ==
    /\ (last_alert_time # tick_lat) <=> (Called("send_smart_email") /\ success)
    /\ (Called("send_smart_email") /\ success) => last_alert_time = now
    /\ LET oks == {i \in 1..Len(evals) : evals[i].ok}
       IN  IF oks = {} THEN last_alert_time = None
           ELSE last_alert_time =
                    Some(evals[CHOOSE i \in oks : \A k \in oks : k <= i].now)

\* a second successful send replaces the first one's time, after a tick
\* in between that left it alone
C8_Witness ==
    /\ pc = "sleep" /\ ticks = 3
    /\ Called("send_smart_email") /\ success
    /\ tick_lat # None /\ last_alert_time # tick_lat
    /\ Len(evals) = 2

\* C9 as stated: run() is never left by an uncaught error; only an external
\* interrupt ends it.
C9_NoUncaughtError ==
    exit \in {"none", "break", "KeyboardInterrupt"}

\* C10 as stated: an interrupt at any point of a tick ends run() through the
\* break of line 283, after the final status message.
C10_InterruptExitsCleanly ==
    (exit \notin {"none", "ZeroDivisionError"}) => (exit = "break" /\ goodbye)

\* C11 as stated: of any two notifications sent successfully, the later one is
\* sent (send_smart_email is called, the time its mail carries) at least
\* ALERT_COOLDOWN_SECONDS after the earlier one was sent, however long the
\* blocking calls of the two ticks take.
C11_SendTimesApart ==
    \A i, j \in 1..Len(evals) :
        (i < j /\ evals[i].ok /\ evals[j].ok)
            => Val(evals[j].sent) - Val(evals[i].sent) >= ALERT_COOLDOWN_SECONDS

\* the collaborator calls of a notifying tick, in program order
ORDER == <<"get_price", "log_price", "get_news", "analyze_with_claude",
           "send_smart_email">>

\* how many times the current tick has made the collaborator call c
Count(c) == Cardinality({i \in 1..Len(calls) : calls[i] = c})

\* the current tick has entered the notifying branch (line 253)
Entered == Notifying \/ Called("get_news")

\* C12: a tick enters the notifying branch exactly when its price is below
\* ALERT_BELOW and last_alert_time is unset or more than
\* ALERT_COOLDOWN_SECONDS before its `now`; otherwise it is idle: it goes to
\* the sleep having called nothing but get_price and log_price.  At exactly
\* ALERT_COOLDOWN_SECONDS the cooldown is still active.
C12_NotifyingGuard ==
    (Evaluated /\ price # None) =>
        /\ Entered <=>
              (/\ Val(price) < ALERT_BELOW
               /\ (tick_lat = None
                   \/ Val(now) - Val(tick_lat) > ALERT_COOLDOWN_SECONDS))
        /\ ~Entered => (pc = "sleep" /\ calls = <<"get_price", "log_price">>)

\* a below-threshold tick exactly ALERT_COOLDOWN_SECONDS after the last
\* successful alert: idle
C12_Witness ==
    /\ pc = "sleep" /\ exit = "none"
    /\ price = Some(69500)
    /\ tick_lat # None
    /\ Val(now) - Val(tick_lat) = ALERT_COOLDOWN_SECONDS
    /\ calls = <<"get_price", "log_price">>

\* C13: a tick whose get_price returns None goes straight to the sleep: it
\* calls get_price once and nothing else, appends no log row and leaves
\* last_alert_time, prev_price, `now` and the history of evaluations as they
\* were, so the next tick starts from the state the tick before left.
C13_FailedFetchIsNoOp ==
    [][(pc = "get_price" /\ exit = "none" /\ exit' = "none" /\ price' = None)
          => /\ pc' = "sleep"
             /\ calls' = <<"get_price">>
             /\ UNCHANGED <<log_exists, log_lines, last_alert_time, prev_price,
                            now, evals, observed, ticks>>]_vars

\* a failed fetch in the second tick, after a tick that logged a price and
\* sent an alert
C13_Witness ==
    /\ pc = "sleep" /\ exit = "none" /\ ticks = 2
    /\ price = None
    /\ calls = <<"get_price">>
    /\ prev_price = Some(69500)
    /\ last_alert_time = Some(0)
    /\ Len(log_lines) = 2

\* C14: the collaborator calls of a tick are made in the order get_price,
\* log_price, get_news, analyze_with_claude, send_smart_email, each at most
\* once and none before the one before it has returned; the tick's log row
\* is in the file before get_news is called; and a tick starts (get_price is
\* about to be called) with no call of its own made yet.
C14_ProgramOrder ==
    /\ Len(calls) <= Len(ORDER)
    /\ calls = SubSeq(ORDER, 1, Len(calls))
    /\ pc = "get_price" => calls = <<>>
    /\ pc = "get_news" => calls = SubSeq(ORDER, 1, 2)
    /\ pc = "analyze_with_claude" => calls = SubSeq(ORDER, 1, 3)
    /\ pc = "send_smart_email" => calls = SubSeq(ORDER, 1, 4)
    /\ Entered =>
          /\ Len(log_lines) = 1 + Len(observed)
          /\ log_lines[Len(log_lines)][3] = Val(price)

\* a tick that made all five calls
C14_Witness ==
    /\ pc = "sleep" /\ exit = "none" /\ ticks = 2
    /\ calls = ORDER

\* C15: a tick that enters the notifying branch calls send_smart_email exactly
\* once before it ends, whatever get_news and analyze_with_claude returned
\* (the empty list and the fallback text included), unless the process is
\* interrupted first; when the send succeeds last_alert_time is the tick's
\* `now`.
C15_BestEffortNeverBlocks ==
    (exit = "none" /\ Entered) =>
        /\ pc \in {"get_news", "analyze_with_claude", "send_smart_email", "sleep"}
        /\ pc = "sleep" =>
              /\ Count("send_smart_email") = 1
              /\ success => last_alert_time = now

\* news failed, analysis failed, the mail went out and the cooldown started
C15_Witness ==
    /\ pc = "sleep" /\ exit = "none"
    /\ articles = <<>> /\ analysis = FALLBACK_ANALYSIS
    /\ Count("send_smart_email") = 1
    /\ success /\ last_alert_time = now

\* C16: get_news, analyze_with_claude and send_smart_email are called at most
\* once per tick and only in a tick whose price is below ALERT_BELOW and
\* whose cooldown has elapsed (last_alert_time unset or more than
\* ALERT_COOLDOWN_SECONDS before `now`); a tick that ends after entering the
\* notifying branch has called each of the three exactly once.
C16_CollaboratorsOnlyWhenNotifying ==
    LET three == {"get_news", "analyze_with_claude", "send_smart_email"}
    IN  /\ \A c \in three : Count(c) <= 1
        /\ (\E c \in three : Called(c)) =>
              /\ price # None /\ Val(price) < ALERT_BELOW
              /\ (tick_lat = None
                  \/ Val(now) - Val(tick_lat) > ALERT_COOLDOWN_SECONDS)
        /\ (pc = "sleep" /\ exit = "none" /\ Entered) =>
              \A c \in three : Count(c) = 1

\* a below-threshold tick one interval after a successful alert: the
\* cooldown is active and none of the three was called
C16_Witness ==
    /\ pc = "sleep" /\ exit = "none"
    /\ price = Some(69500)
    /\ tick_lat # None
    /\ Val(now) - Val(tick_lat) = CHECK_INTERVAL_SECONDS
    /\ calls = <<"get_price", "log_price">>

\* C17: a tick whose price is below ALERT_BELOW and whose `now` is at most
\* ALERT_COOLDOWN_SECONDS after the `now` of an earlier successful send does
\* not enter the notifying branch, also when the price observed just before
\* it was not below ALERT_BELOW.
C17_RecoveryKeepsCooldown ==
    (Evaluated /\ price # None /\ Val(price) < ALERT_BELOW
        /\ Len(observed) >= 2
        /\ observed[Len(observed) - 1] >= ALERT_BELOW
        /\ \E i \in 1..(Len(evals) - 1) :
              /\ evals[i].ok
              /\ Val(now) - evals[i].now <= ALERT_COOLDOWN_SECONDS)
        => ~Entered

\* alert, recovery to the threshold, drop again within the cooldown: idle
C17_Witness ==
    /\ pc = "sleep" /\ exit = "none" /\ ticks = 3
    /\ observed = <<69500, 80000, 69500>>
    /\ Len(evals) = 2 /\ evals[1].ok
    /\ Val(now) - evals[1].now <= ALERT_COOLDOWN_SECONDS
    /\ calls = <<"get_price", "log_price">>

\* C18: when the `now` values of successive evaluations never decrease, the
\* remaining cooldown computed by a tick that finds the cooldown active lies
\* between 0 and ALERT_COOLDOWN_SECONDS inclusive.
C18_RemainingInRange ==
    (/\ Evaluated /\ price # None /\ Val(price) < ALERT_BELOW
     /\ tick_lat # None /\ ~Entered
     /\ \A i, j \in 1..Len(evals) : i < j => evals[i].now <= evals[j].now)
        => /\ remaining(Val(now), tick_lat) >= 0
           /\ remaining(Val(now), tick_lat) <= ALERT_COOLDOWN_SECONDS

\* a tick one interval into the cooldown: one interval less than the whole
\* cooldown remains
C18_Witness ==
    /\ pc = "sleep" /\ exit = "none"
    /\ price = Some(69500) /\ tick_lat # None /\ ~Entered
    /\ Len(evals) = 2
    /\ remaining(Val(now), tick_lat) = ALERT_COOLDOWN_SECONDS - CHECK_INTERVAL_SECONDS

====
